---- MODULE Spec2Model ----
(***************************************************************************)
(* A model of app.py, the Streamlit page of the EV dataset analysis.       *)
(*                                                                         *)
(* The page is a script that Streamlit runs from top to bottom on every    *)
(* page run; load_and_analyze_data is wrapped by st.cache_data.  The       *)
(* position of the running script is pc, named after the source line that  *)
(* is about to execute; "idle" is the state between two page runs.         *)
(*                                                                         *)
(* A text value (Make, Electric Vehicle Type) is modelled by a positive    *)
(* integer whose numeric order stands for the lexicographic order of the   *)
(* text; a missing value (pandas NaN) by NA.  An average is kept as the    *)
(* exact fraction num/den, den = 0 being NaN, so that the ordering of two  *)
(* averages is the ordering of the quotients the code computes.            *)
(***************************************************************************)
EXTENDS Integers, Sequences, FiniteSets

\* A missing cell of the data frame (NaN), as read_csv produces it.
NA == -1

\* head(10)
TopN == 10

FILE_PATH == "EV Population Dataset.csv"

\* Bounds of the input families.
MaxGroups == 12
YearsPerMake == 3
MaxRowsB == 3

Min(a, b) == IF a < b THEN a ELSE b

Row(m, y, t, r) == [Make |-> m, ModelYear |-> y, EVType |-> t, ElectricRange |-> r]

AllColumns == {"Make", "Model Year", "Electric Vehicle Type", "Electric Range"}

----------------------------------------------------------------------------
(* pandas: the operations the function applies to the data frame.          *)

\* The ascending sequence of a finite set of integers.
RECURSIVE SortedSeq(_)
SortedSeq(S) ==
    IF S = {} THEN <<>>
    ELSE LET m == CHOOSE x \in S : \A y \in S : x <= y
         IN  <<m>> \o SortedSeq(S \ {m})

\* Lexicographic order of the group keys (Make, Model Year).
KeyLess(a, b) == a[1] < b[1] \/ (a[1] = b[1] /\ a[2] < b[2])

RECURSIVE SortedKeys(_)
SortedKeys(S) ==
    IF S = {} THEN <<>>
    ELSE LET m == CHOOSE x \in S : \A y \in S \ {x} : KeyLess(x, y)
         IN  <<m>> \o SortedKeys(S \ {m})

\* A groupby that keeps a row with one key field missing.
HasKeyAnyM(r) == r.Make # NA \/ r.ModelYear # NA

\* groupby drops a row whose key holds a missing value (dropna=True).
HasKeyA(r) == r.Make # NA /\ r.ModelYear # NA
KeyOfRow(r) == <<r.Make, r.ModelYear>>

\* size(): one pass over the rows, adding one to the count of the row's group.
RECURSIVE SizeFold(_, _, _)
SizeFold(rows, i, acc) ==
    IF i > Len(rows) THEN acc
    ELSE SizeFold(rows, i + 1,
             IF HasKeyA(rows[i])
             THEN [acc EXCEPT ![KeyOfRow(rows[i])] = @ + 1]
             ELSE acc)

\* df.groupby(['Make', 'Model Year']).size().reset_index(name='Total EVs'):
\* one row per observed key, in key order (sort=True).
GroupBySize(rows) ==
    LET keyset == {KeyOfRow(rows[i]) : i \in {j \in DOMAIN rows : HasKeyA(rows[j])}}
        keys   == SortedKeys(keyset)
        cnt    == SizeFold(rows, 1, [k \in keyset |-> 0])
    IN  [i \in DOMAIN keys |->
            [Make |-> keys[i][1], ModelYear |-> keys[i][2], TotalEVs |-> cnt[keys[i]]]]

\* A mean that counts a row without a range as an observation.
RECURSIVE MeanFoldM(_, _, _)
MeanFoldM(rows, i, acc) ==
    IF i > Len(rows) THEN acc
    ELSE MeanFoldM(rows, i + 1,
             IF rows[i].EVType # NA
             THEN [acc EXCEPT ![rows[i].EVType] =
                      [num |-> @.num + (IF rows[i].ElectricRange # NA
                                        THEN rows[i].ElectricRange ELSE 0),
                       den |-> @.den + 1]]
             ELSE acc)

\* mean(): one pass over the rows; a missing Electric Range adds to neither the
\* sum nor the number of observations of its group.
RECURSIVE MeanFold(_, _, _)
MeanFold(rows, i, acc) ==
    IF i > Len(rows) THEN acc
    ELSE MeanFold(rows, i + 1,
             IF rows[i].EVType # NA /\ rows[i].ElectricRange # NA
             THEN [acc EXCEPT ![rows[i].EVType] =
                      [num |-> @.num + rows[i].ElectricRange, den |-> @.den + 1]]
             ELSE acc)

\* A grouping that sees only the types of rows with a range.
TypesOfM(rows) ==
    {rows[i].EVType : i \in {j \in DOMAIN rows : rows[j].EVType # NA /\ rows[j].ElectricRange # NA}}

\* The groups of groupby('Electric Vehicle Type'): the types observed, a row
\* without a type dropped (dropna=True).
TypesOf(rows) == {rows[i].EVType : i \in {j \in DOMAIN rows : rows[j].EVType # NA}}

GroupMeans(rows, types) == MeanFold(rows, 1, [t \in types |-> [num |-> 0, den |-> 0]])

\* df.groupby('Electric Vehicle Type')['Electric Range'].mean().reset_index(...):
\* one row per observed type, in type order; the mean of no observation is NaN.
GroupByMean(rows) ==
    LET types == TypesOf(rows)
        keys  == SortedSeq(types)
        avg   == GroupMeans(rows, types)
    IN  [i \in DOMAIN keys |-> [EVType |-> keys[i], Avg |-> avg[keys[i]]]]

IsNaN(q) == q.den = 0

\* q1 < q2 for two averages that are numbers.
RatLess(q1, q2) == q1.num * q2.den < q2.num * q1.den
RatEq(q1, q2) == q1.num * q2.den = q2.num * q1.den

\* The orders in which an unstable descending sort (kind='quicksort', the
\* default of sort_values) may leave the positions S of items: descending by
\* value, positions of equal value in any order.
RECURSIVE DescIndexers(_, _)
DescIndexers(items, S) ==
    IF S = {} THEN {<<>>}
    ELSE LET tops == {i \in S : \A j \in S : ~RatLess(items[i], items[j])}
         IN  UNION {{<<i>> \o rest : rest \in DescIndexers(items, S \ {i})} : i \in tops}

\* The same for an ascending sort.
RECURSIVE AscIndexers(_, _)
AscIndexers(items, S) ==
    IF S = {} THEN {<<>>}
    ELSE LET bots == {i \in S : \A j \in S : ~RatLess(items[j], items[i])}
         IN  UNION {{<<i>> \o rest : rest \in AscIndexers(items, S \ {i})} : i \in bots}

\* nargsort with ascending=True.
NargsortAsc(items) ==
    LET nan == {i \in DOMAIN items : IsNaN(items[i])}
    IN  {ix \o SortedSeq(nan) : ix \in AscIndexers(items, DOMAIN items \ nan)}

\* nargsort(items, ascending=False, na_position='last'): the sorted positions of
\* the numbers, then the positions of the NaN in their original order.
Nargsort(items) ==
    LET nan == {i \in DOMAIN items : IsNaN(items[i])}
    IN  {ix \o SortedSeq(nan) : ix \in DescIndexers(items, DOMAIN items \ nan)}

Take(t, ix) == [k \in DOMAIN ix |-> t[ix[k]]]

TotalKey(r) == [num |-> r.TotalEVs, den |-> 1]
AvgKey(r) == r.Avg

\* sort_values(by='Total EVs', ascending=False): the tables it may return.
\* A sort whose result is dropped (sort_values is not in place).
SortByTotalM(t) == {t}
SortByTotal(t) == {Take(t, ix) : ix \in Nargsort([i \in DOMAIN t |-> TotalKey(t[i])])}

\* sort_values(by='Average Electric Range (Miles)', ascending=False)
SortByAvg(t) == {Take(t, ix) : ix \in Nargsort([i \in DOMAIN t |-> AvgKey(t[i])])}

\* A head that keeps one row more.
HeadRowsM(t, n) == SubSeq(t, 1, Min(n + 1, Len(t)))

\* head(n)
HeadRows(t, n) == SubSeq(t, 1, Min(n, Len(t)))

----------------------------------------------------------------------------
(* The state of the Streamlit process.                                     *)

VARIABLES
    fs,                      \* what FILE_PATH holds on disk
    cache,                   \* the st.cache_data store of load_and_analyze_data
    pc,                      \* the line the page run is at, "idle" between runs
    ui,                      \* the elements the current page run has emitted
    df,                      \* local of load_and_analyze_data
    ev_counts_by_make_year,  \* local of load_and_analyze_data
    f_top_10_ev_counts,      \* local of load_and_analyze_data
    f_avg_range_by_type,     \* local of load_and_analyze_data
    top_10_ev_counts,        \* module level, assigned at line 59
    avg_range_by_type,       \* module level, assigned at line 59
    outcome                  \* how the call of this page run ended

vars == <<fs, cache, pc, ui, df, ev_counts_by_make_year, f_top_10_ev_counts,
          f_avg_range_by_type, top_10_ev_counts, avg_range_by_type, outcome>>

locals == <<df, ev_counts_by_make_year, f_top_10_ev_counts, f_avg_range_by_type>>
globals == <<top_10_ev_counts, avg_range_by_type>>

\* A data frame value, or None.  Make_Year: the column line 83 adds.
None == [isNone |-> TRUE, rows |-> <<>>, Make_Year |-> FALSE]
Table(rows) == [isNone |-> FALSE, rows |-> rows, Make_Year |-> FALSE]

Csv(cols, numeric, rows) == [kind |-> "csv", cols |-> cols, numeric |-> numeric, rows |-> rows]
Absent == [kind |-> "absent", cols |-> {}, numeric |-> TRUE, rows |-> <<>>]
Unreadable == [kind |-> "unreadable", cols |-> {}, numeric |-> TRUE, rows |-> <<>>]
NoFrame == [kind |-> "none", cols |-> {}, numeric |-> TRUE, rows |-> <<>>]

NoEntry == [present |-> FALSE, value |-> <<None, None>>, msgs |-> <<>>]
Entry(value, m) == [present |-> TRUE, value |-> value, msgs |-> m]

----------------------------------------------------------------------------
(* The files the model reads.                                              *)

\* The example of the documentation: two rows of one make and year, one of
\* another, all of one type.
ExampleRows == <<Row(2, 2020, 1, 250), Row(2, 2020, 1, 270), Row(1, 2019, 1, 150)>>

\* Two groups of equal count, a row without a make, a type without any range,
\* two types of equal average.
TiedRows == <<Row(1, 2021, 1, 100), Row(2, 2020, 2, NA), Row(NA, 2020, 1, 300),
              Row(1, 2021, 3, 200), Row(2, 2020, 2, NA)>>

\* What FILE_PATH may hold between two page runs.
Files ==
    { Absent, Unreadable,
      Csv(AllColumns \ {"Make"}, TRUE, ExampleRows),
      Csv(AllColumns \ {"Electric Range"}, TRUE, ExampleRows),
      Csv(AllColumns, FALSE, ExampleRows),
      Csv(AllColumns, TRUE, <<>>),
      Csv(AllColumns, TRUE, ExampleRows),
      Csv(AllColumns, TRUE, TiedRows) }

\* The k-th (Make, Model Year) pair, in key order.
MakeOf(k) == 1 + ((k - 1) \div YearsPerMake)
YearOf(k) == 2000 + ((k - 1) % YearsPerMake)
\* Its rows: of one of three types, the third never with a range.
BaseRow(k) == Row(MakeOf(k), YearOf(k), 1 + (k % 3), IF k % 3 = 2 THEN NA ELSE 10 * k)

RECURSIVE Repeat(_, _)
Repeat(x, n) == IF n = 0 THEN <<>> ELSE <<x>> \o Repeat(x, n - 1)

\* The rows of the first g pairs, the k-th pair mult[k] times.
RECURSIVE BaseRows(_, _)
BaseRows(g, mult) ==
    IF g = 0 THEN <<>> ELSE BaseRows(g - 1, mult) \o Repeat(BaseRow(g), mult[g])

\* Pairs of groups of equal size, the sizes rising or falling in key order.
Paired(g) == [k \in 1..g |-> (k + 1) \div 2]
Falling(g) == [k \in 1..g |-> (g - k + 2) \div 2]

RECURSIVE SeqsUpTo(_, _)
SeqsUpTo(S, n) ==
    IF n = 0 THEN {<<>>}
    ELSE LET shorter == SeqsUpTo(S, n - 1)
         IN  shorter \cup {Append(q, x) : q \in {r \in shorter : Len(r) = n - 1}, x \in S}

\* Rows appended to the base rows: of a pair already there with no range, with
\* neither type nor range, with no make, with no year and no type, of the last
\* pair.
ExtraRows == << Row(1, 2000, 1, NA), Row(1, 2000, NA, NA), Row(NA, 2000, 2, 5),
                Row(2, NA, NA, 5), BaseRow(MaxGroups) >>

\* Data sets of up to MaxGroups groups, more than head(10) keeps: the base
\* rows, then any selection of the extra rows.
DatasetsA ==
    UNION { { BaseRows(g, mult) \o Take(ExtraRows, SortedSeq(I)) :
                mult \in {Paired(g), Falling(g)},
                I \in SUBSET DOMAIN ExtraRows } : g \in 0..MaxGroups }

\* Short data sets over every combination of type and range, present or not.
RowsB == { Row(IF t = NA THEN 1 ELSE t, 2020, t, r) : t \in {NA, 1, 2, 3}, r \in {NA, 100, 300} }
DatasetsB == SeqsUpTo(RowsB, MaxRowsB)

AggFiles == { Csv(AllColumns, TRUE, rows) : rows \in DatasetsA \cup DatasetsB }

----------------------------------------------------------------------------
(* One page run: the script, line by line.                                 *)

Emit(e) == ui' = ui \o e

\* A page run starts: a fresh module namespace, an empty page.
StartRun ==
    /\ pc = "idle"
    /\ pc' = "L6"
    /\ ui' = <<>>
    /\ outcome' = "none"
    /\ df' = NoFrame
    /\ ev_counts_by_make_year' = None
    /\ f_top_10_ev_counts' = None
    /\ f_avg_range_by_type' = None
    /\ top_10_ev_counts' = None
    /\ avg_range_by_type' = None
    /\ UNCHANGED <<fs, cache>>

\* The file is written, replaced or removed between two page runs.
ChangeFile ==
    /\ pc = "idle"
    /\ fs' \in Files \ {fs}
    /\ UNCHANGED <<cache, pc, ui, outcome, locals, globals>>

\* line 6: st.set_page_config
SetPageConfig ==
    /\ pc = "L6"
    /\ pc' = "L52"
    /\ UNCHANGED <<fs, cache, ui, outcome, locals, globals>>

\* A script that emits the header of the first section with the title.
TitleElemsM == <<"title", "header A">>
TitleElems == <<"title">>

\* line 52: st.title
Title ==
    /\ pc = "L52"
    /\ Emit(TitleElems)
    /\ pc' = "L53"
    /\ UNCHANGED <<fs, cache, outcome, locals, globals>>

\* line 53: st.markdown("---")
Separator ==
    /\ pc = "L53"
    /\ Emit(<<"separator">>)
    /\ pc' = "L59"
    /\ UNCHANGED <<fs, cache, outcome, locals, globals>>

\* What st.cache_data keeps of a call that returned value after emitting m.
Stored(value, m) == Entry(value, m)

\* The function returns value, having emitted the elements m: the wrapper
\* stores both under the path, and line 59 assigns the two results.
ReturnFromCall(value, m, how) ==
    /\ cache' = [cache EXCEPT ![FILE_PATH] = Stored(value, m)]
    /\ top_10_ev_counts' = value[1]
    /\ avg_range_by_type' = value[2]
    /\ Emit(m)
    /\ outcome' = how
    /\ pc' = "L61"

\* line 59, the path is in the cache: the stored elements are replayed and a
\* copy of the stored value returned; the function body does not run.
CallHit ==
    /\ pc = "L59"
    /\ cache[FILE_PATH].present
    /\ top_10_ev_counts' = cache[FILE_PATH].value[1]
    /\ avg_range_by_type' = cache[FILE_PATH].value[2]
    /\ Emit(cache[FILE_PATH].msgs)
    /\ outcome' = "hit"
    /\ pc' = "L61"
    /\ UNCHANGED <<fs, cache, locals>>

\* line 59, the path is not in the cache: the function body runs.
CallMiss ==
    /\ pc = "L59"
    /\ ~cache[FILE_PATH].present
    /\ pc' = "L22"
    /\ UNCHANGED <<fs, cache, ui, outcome, locals, globals>>

\* line 22: pd.read_csv succeeds
ReadCsv ==
    /\ pc = "L22"
    /\ fs.kind = "csv"
    /\ df' = fs
    /\ pc' = "L33"
    /\ UNCHANGED <<fs, cache, ui, outcome, ev_counts_by_make_year,
                   f_top_10_ev_counts, f_avg_range_by_type, globals>>

\* A FileNotFound branch that returns two empty frames.
NotFoundResultM == <<Table(<<>>), Table(<<>>)>>
NotFoundResult == <<None, None>>

\* lines 23-26: FileNotFoundError
ReadCsvNotFound ==
    /\ pc = "L22"
    /\ fs.kind = "absent"
    /\ ReturnFromCall(NotFoundResult, <<"error: file not found">>, "FileNotFound")
    /\ UNCHANGED <<fs, locals>>

\* lines 27-29: any other exception of read_csv
ReadCsvError ==
    /\ pc = "L22"
    /\ fs.kind = "unreadable"
    /\ ReturnFromCall(<<None, None>>, <<"error: file loading">>, "LoadError")
    /\ UNCHANGED <<fs, locals>>

\* An exception no handler of the function catches: nothing is stored, line 59
\* assigns nothing, Streamlit shows the exception and the page run ends.
Uncaught ==
    /\ Emit(<<"exception">>)
    /\ outcome' = "raised"
    /\ pc' = "idle"
    /\ UNCHANGED <<fs, cache, globals>>

\* line 33: groupby(['Make', 'Model Year']).size()
GroupCounts ==
    /\ pc = "L33"
    /\ {"Make", "Model Year"} \subseteq df.cols
    /\ ev_counts_by_make_year' = Table(GroupBySize(df.rows))
    /\ pc' = "L36"
    /\ UNCHANGED <<fs, cache, ui, outcome, df, f_top_10_ev_counts,
                   f_avg_range_by_type, globals>>

\* line 33: KeyError, a key column is not in the frame
GroupCountsKeyError ==
    /\ pc = "L33"
    /\ ~({"Make", "Model Year"} \subseteq df.cols)
    /\ Uncaught
    /\ UNCHANGED locals

\* line 36: sort_values(by='Total EVs', ascending=False)
SortCounts ==
    /\ pc = "L36"
    /\ \E t \in SortByTotal(ev_counts_by_make_year.rows) :
          ev_counts_by_make_year' = Table(t)
    /\ pc' = "L39"
    /\ UNCHANGED <<fs, cache, ui, outcome, df, f_top_10_ev_counts,
                   f_avg_range_by_type, globals>>

\* line 39: head(10)
HeadCounts ==
    /\ pc = "L39"
    /\ f_top_10_ev_counts' = Table(HeadRows(ev_counts_by_make_year.rows, TopN))
    /\ pc' = "L43"
    /\ UNCHANGED <<fs, cache, ui, outcome, df, ev_counts_by_make_year,
                   f_avg_range_by_type, globals>>

\* line 43: groupby('Electric Vehicle Type')['Electric Range'].mean()
GroupMean ==
    /\ pc = "L43"
    /\ {"Electric Vehicle Type", "Electric Range"} \subseteq df.cols
    /\ df.numeric
    /\ f_avg_range_by_type' = Table(GroupByMean(df.rows))
    /\ pc' = "L46"
    /\ UNCHANGED <<fs, cache, ui, outcome, df, ev_counts_by_make_year,
                   f_top_10_ev_counts, globals>>

\* line 43: KeyError (a column is not in the frame) or TypeError (the mean of
\* a column of text)
GroupMeanError ==
    /\ pc = "L43"
    /\ ~({"Electric Vehicle Type", "Electric Range"} \subseteq df.cols /\ df.numeric)
    /\ Uncaught
    /\ UNCHANGED locals

\* line 46: sort_values(by='Average Electric Range (Miles)', ascending=False)
SortMean ==
    /\ pc = "L46"
    /\ \E t \in SortByAvg(f_avg_range_by_type.rows) : f_avg_range_by_type' = Table(t)
    /\ pc' = "L48"
    /\ UNCHANGED <<fs, cache, ui, outcome, df, ev_counts_by_make_year,
                   f_top_10_ev_counts, globals>>

\* line 48: return top_10_ev_counts, avg_range_by_type
Return ==
    /\ pc = "L48"
    /\ ReturnFromCall(<<f_top_10_ev_counts, f_avg_range_by_type>>, <<>>, "tables")
    /\ UNCHANGED <<fs, locals>>

Guard == ~top_10_ev_counts.isNone /\ ~avg_range_by_type.isNone

\* line 61, both results are there
GuardTrue ==
    /\ pc = "L61"
    /\ Guard
    /\ pc' = "L65"
    /\ UNCHANGED <<fs, cache, ui, outcome, locals, globals>>

\* line 61, a result is None: the script ends
GuardFalse ==
    /\ pc = "L61"
    /\ ~Guard
    /\ pc' = "idle"
    /\ UNCHANGED <<fs, cache, ui, outcome, locals, globals>>

SectionA == <<"header A", "info A", "subheader", "dataframe A", "subheader", "chart A">>
SectionB == <<"header B", "info B", "subheader", "dataframe B", "subheader", "chart B">>

\* lines 65-95: the section of table A; line 83 adds the column Make_Year to
\* the copy of the table this page run was given.
RenderA ==
    /\ pc = "L65"
    /\ Emit(SectionA)
    /\ top_10_ev_counts' = [top_10_ev_counts EXCEPT !.Make_Year = TRUE]
    /\ pc' = "L97"
    /\ UNCHANGED <<fs, cache, outcome, locals, avg_range_by_type>>

\* line 97: st.markdown("---")
Separator2 ==
    /\ pc = "L97"
    /\ Emit(<<"separator">>)
    /\ pc' = "L101"
    /\ UNCHANGED <<fs, cache, outcome, locals, globals>>

\* lines 101-134: the section of table B
RenderB ==
    /\ pc = "L101"
    /\ Emit(SectionB)
    /\ pc' = "L136"
    /\ UNCHANGED <<fs, cache, outcome, locals, globals>>

\* lines 136-137: st.markdown("---"), st.caption; the script ends
Footer ==
    /\ pc = "L136"
    /\ Emit(<<"separator", "caption">>)
    /\ pc' = "idle"
    /\ UNCHANGED <<fs, cache, outcome, locals, globals>>

InitProcess ==
    /\ cache = [p \in {FILE_PATH} |-> NoEntry]
    /\ ui = <<>>
    /\ outcome = "none"
    /\ df = NoFrame
    /\ ev_counts_by_make_year = None
    /\ f_top_10_ev_counts = None
    /\ f_avg_range_by_type = None
    /\ top_10_ev_counts = None
    /\ avg_range_by_type = None

\* The process has started; no page has run yet.
Init ==
    /\ fs \in Files
    /\ pc = "idle"
    /\ InitProcess

Body ==
    \/ CallMiss \/ ReadCsv \/ GroupCounts \/ SortCounts \/ HeadCounts
    \/ GroupMean \/ SortMean \/ Return

Next ==
    \/ StartRun \/ ChangeFile \/ SetPageConfig \/ Title \/ Separator
    \/ CallHit \/ ReadCsvNotFound \/ ReadCsvError
    \/ GroupCountsKeyError \/ GroupMeanError
    \/ Body
    \/ GuardTrue \/ GuardFalse \/ RenderA \/ Separator2 \/ RenderB \/ Footer

Spec == Init /\ [][Next]_vars

\* The first call of load_and_analyze_data of a process, on each data set of
\* the input families.
InitAgg ==
    /\ fs \in AggFiles
    /\ pc = "L59"
    /\ InitProcess

SpecAgg == InitAgg /\ [][Body]_vars

----------------------------------------------------------------------------
(* Properties.                                                             *)

RECURSIVE SumF(_, _)
SumF(f, S) ==
    IF S = {} THEN 0
    ELSE LET x == CHOOSE y \in S : TRUE IN f[x] + SumF(f, S \ {x})

\* The rows of the frame with both key fields, and those of one group.
Keyed == {i \in DOMAIN df.rows : df.rows[i].Make # NA /\ df.rows[i].ModelYear # NA}
InGroup(m, y) == {i \in DOMAIN df.rows : df.rows[i].Make = m /\ df.rows[i].ModelYear = y}
GroupsOfInput == {<<df.rows[i].Make, df.rows[i].ModelYear>> : i \in Keyed}
\* The rows of the frame of one type that have a range.
Ranged(t) == {i \in DOMAIN df.rows : df.rows[i].EVType = t /\ df.rows[i].ElectricRange # NA}
TypesOfInput == {df.rows[i].EVType : i \in DOMAIN df.rows} \ {NA}

TableA == top_10_ev_counts.rows
TableB == avg_range_by_type.rows
Returned == outcome = "tables"

\* a >= b as floating point compares: false when either is NaN
AvgGeq(a, b) == ~IsNaN(a) /\ ~IsNaN(b) /\ ~RatLess(a, b)

\* C1: table A has at most 10 rows and its Total EVs column is non-increasing
\* from each row to the next.
C1_TopTenDescending ==
    Returned =>
        /\ Len(TableA) <= 10
        /\ \A i \in 1..(Len(TableA) - 1) : TableA[i].TotalEVs >= TableA[i + 1].TotalEVs

\* C1 witness: more than 10 groups were cut to 10 rows, of falling counts.
C1_Witness ==
    /\ Returned
    /\ Len(ev_counts_by_make_year.rows) > 10
    /\ Len(TableA) = 10
    /\ TableA[1].TotalEVs > TableA[10].TotalEVs

\* C2: the sum of Total EVs over all groups, before truncation, is the number
\* of input rows with both Make and Model Year, whatever their range or type;
\* no group has a missing Make or Model Year.
C2_CountsSumToKeyedRows ==
    ~ev_counts_by_make_year.isNone =>
        LET g == ev_counts_by_make_year.rows
        IN  /\ SumF([i \in DOMAIN g |-> g[i].TotalEVs], DOMAIN g) = Cardinality(Keyed)
            /\ \A i \in DOMAIN g : g[i].Make # NA /\ g[i].ModelYear # NA

\* C2 witness: a counted row with neither range nor type, a row without a
\* make or without a year, more groups than table A keeps.
C2_Witness ==
    /\ pc = "L39"
    /\ \E i \in Keyed : df.rows[i].ElectricRange = NA /\ df.rows[i].EVType = NA
    /\ \E i \in DOMAIN df.rows : i \notin Keyed
    /\ Len(ev_counts_by_make_year.rows) > 10

OneRowPerType ==
    /\ {TableB[i].EVType : i \in DOMAIN TableB} = TypesOfInput
    /\ Len(TableB) = Cardinality(TypesOfInput)

\* C3 as stated: one row per type of the input, and every average at least the
\* next one.
C3_Original ==
    Returned =>
        /\ OneRowPerType
        /\ \A i \in 1..(Len(TableB) - 1) : AvgGeq(TableB[i].Avg, TableB[i + 1].Avg)

\* C3 amended: table B has one row per type of the input; the averages that are
\* numbers are non-increasing from row to row, and every row whose average is
\* missing (a type with no range at all) comes after all of them.
C3_OneRowPerTypeNaNLast ==
    Returned =>
        /\ OneRowPerType
        /\ \A i \in 1..(Len(TableB) - 1) :
              \/ IsNaN(TableB[i + 1].Avg)
              \/ AvgGeq(TableB[i].Avg, TableB[i + 1].Avg)

\* C3 witness: two types of different averages, then a type with no range.
C3_Witness ==
    /\ Returned
    /\ Len(TableB) = 3
    /\ ~IsNaN(TableB[2].Avg)
    /\ RatLess(TableB[2].Avg, TableB[1].Avg)
    /\ IsNaN(TableB[3].Avg)
    /\ \E i \in DOMAIN df.rows : df.rows[i].EVType = NA

\* C4: the average of each row of table B is the sum of Electric Range over
\* the input rows of that type that have a range, divided by their number;
\* it is missing exactly when there is no such row.
C4_AverageIsMean ==
    Returned =>
        \A k \in DOMAIN TableB :
            LET S == Ranged(TableB[k].EVType)
                total == SumF([i \in S |-> df.rows[i].ElectricRange], S)
            IN  /\ IsNaN(TableB[k].Avg) <=> S = {}
                /\ TableB[k].Avg.num * Cardinality(S) = total * TableB[k].Avg.den

\* C4 witness: a type with two different ranges and a row without range,
\* beside a row of another type; an average that is not a whole number.
C4_Witness ==
    /\ Returned
    /\ \E k \in DOMAIN TableB :
          LET t == TableB[k].EVType
          IN  /\ \E i, j \in Ranged(t) : df.rows[i].ElectricRange < df.rows[j].ElectricRange
              /\ \E i \in DOMAIN df.rows : df.rows[i].EVType = t /\ df.rows[i].ElectricRange = NA
    /\ Len(TableB) > 1
    /\ \E k \in DOMAIN TableB :
          ~IsNaN(TableB[k].Avg) /\ TableB[k].Avg.num % TableB[k].Avg.den # 0

\* C5: table A has min(10, G) rows for G groups, each a different group with
\* the number of input rows of that group, and no group left out has more rows
\* than a group in the table.
C5_TopOfRanking ==
    Returned =>
        LET in == {<<TableA[i].Make, TableA[i].ModelYear>> : i \in DOMAIN TableA}
        IN  /\ Len(TableA) = Min(10, Cardinality(GroupsOfInput))
            /\ Cardinality(in) = Len(TableA)
            /\ in \subseteq GroupsOfInput
            /\ \A i \in DOMAIN TableA :
                  TableA[i].TotalEVs = Cardinality(InGroup(TableA[i].Make, TableA[i].ModelYear))
            /\ \A k \in GroupsOfInput \ in : \A i \in DOMAIN TableA :
                  Cardinality(InGroup(k[1], k[2])) <= TableA[i].TotalEVs

\* C5 witness: eleven or more groups; one left out has as many rows as the
\* last one kept, which has fewer than the first.
C5_Witness ==
    /\ Returned
    /\ Cardinality(GroupsOfInput) > 10
    /\ \E k \in GroupsOfInput :
          /\ \A i \in DOMAIN TableA : k # <<TableA[i].Make, TableA[i].ModelYear>>
          /\ Cardinality(InGroup(k[1], k[2])) = TableA[10].TotalEVs
    /\ TableA[10].TotalEVs < TableA[1].TotalEVs

PosIn(t, r) == CHOOSE i \in DOMAIN t : t[i] = r
Sorted == pc \in {"L48", "L61"} /\ ~f_avg_range_by_type.isNone
SortedA == ev_counts_by_make_year.rows
SortedB == f_avg_range_by_type.rows
GroupedA == GroupBySize(df.rows)
GroupedB == GroupByMean(df.rows)

\* C10 as stated: two rows of equal aggregate value keep, after the sort, the
\* order the grouping step gave them.
C10_Original ==
    Sorted =>
        LET ga == GroupedA
            gb == GroupedB
        IN  /\ \A i, j \in DOMAIN SortedA :
                  (i < j /\ SortedA[i].TotalEVs = SortedA[j].TotalEVs)
                      => PosIn(ga, SortedA[i]) < PosIn(ga, SortedA[j])
            /\ \A i, j \in DOMAIN SortedB :
                  (i < j /\ ~IsNaN(SortedB[i].Avg) /\ ~IsNaN(SortedB[j].Avg)
                         /\ RatEq(SortedB[i].Avg, SortedB[j].Avg))
                      => PosIn(gb, SortedB[i]) < PosIn(gb, SortedB[j])

\* C10 amended: each sort returns the rows of the grouping step, each once,
\* a row of larger aggregate value before every row of smaller value; rows
\* whose average is missing come last, in the order of the grouping step.
\* The order of rows of equal value is not fixed.
C10_SortedPermutation ==
    Sorted =>
        LET ga == GroupedA
            gb == GroupedB
        IN  /\ Len(SortedA) = Len(ga)
            /\ {SortedA[i] : i \in DOMAIN SortedA} = {ga[i] : i \in DOMAIN ga}
            /\ \A i \in 1..(Len(SortedA) - 1) :
                  SortedA[i].TotalEVs >= SortedA[i + 1].TotalEVs
            /\ Len(SortedB) = Len(gb)
            /\ {SortedB[i] : i \in DOMAIN SortedB} = {gb[i] : i \in DOMAIN gb}
            /\ \A i, j \in DOMAIN SortedB :
                  /\ (~IsNaN(SortedB[i].Avg) /\ IsNaN(SortedB[j].Avg)) => i < j
                  /\ (~IsNaN(SortedB[i].Avg) /\ ~IsNaN(SortedB[j].Avg)
                        /\ RatLess(SortedB[j].Avg, SortedB[i].Avg)) => i < j
                  /\ (IsNaN(SortedB[i].Avg) /\ IsNaN(SortedB[j].Avg) /\ i < j)
                        => PosIn(gb, SortedB[i]) < PosIn(gb, SortedB[j])

\* C10 witness: the sort has left two groups of equal count in the reverse of
\* their grouping order, and has run on two types without any range.
C10_Witness ==
    /\ Sorted
    /\ \E i, j \in DOMAIN SortedA :
          /\ i < j /\ SortedA[i].TotalEVs = SortedA[j].TotalEVs
          /\ KeyLess(<<SortedA[j].Make, SortedA[j].ModelYear>>,
                     <<SortedA[i].Make, SortedA[i].ModelYear>>)
    /\ \E i, j \in DOMAIN SortedB :
          i < j /\ IsNaN(SortedB[i].Avg) /\ IsNaN(SortedB[j].Avg)

SectionElems == {"header A", "info A", "header B", "info B", "subheader",
                 "dataframe A", "dataframe B", "chart A", "chart B", "caption"}
Emitted == {ui[k] : k \in DOMAIN ui}

\* The call of this page run has ended by returning a value.
CallReturned == outcome \in {"hit", "tables", "FileNotFound", "LoadError"}
BothTables == ~top_10_ev_counts.isNone /\ ~avg_range_by_type.isNone
BothAbsent == top_10_ev_counts.isNone /\ avg_range_by_type.isNone
ErrorShown == \E e \in Emitted : e \in {"error: file not found", "error: file loading"}

\* C6 as stated: in a page run that finds no file at the path, the call
\* reports an error and returns (None, None), and no section is rendered.
C6_Original ==
    (pc # "idle" /\ fs.kind = "absent" /\ outcome # "none") =>
        /\ BothAbsent
        /\ ErrorShown
        /\ Emitted \cap SectionElems = {}

\* C6 amended: in a page run that finds no file at the path and whose call is
\* not answered from the cache, the function takes the FileNotFound branch,
\* reports the error and returns (None, None); the page run then ends at the
\* guard of line 61 having rendered no header, table, chart or caption.
C6_NotFoundRendersNothing ==
    /\ (pc # "idle" /\ fs.kind = "absent" /\ outcome \notin {"none", "hit"})
          => outcome = "FileNotFound"
    /\ outcome = "FileNotFound" =>
          /\ top_10_ev_counts = None /\ avg_range_by_type = None
          /\ ui = <<"title", "separator", "error: file not found">>
          /\ pc \in {"L61", "idle"}

\* C6 witness: a page run has ended after the FileNotFound branch.
C6_Witness ==
    /\ outcome = "FileNotFound"
    /\ pc = "idle"
    /\ fs.kind = "absent"
    /\ top_10_ev_counts = None

\* C7 as stated: whatever the file holds, the call ends with both tables or
\* with a reported failure and both results absent, never with an uncaught
\* exception.
C7_Original ==
    /\ outcome # "raised"
    /\ CallReturned => (BothTables \/ (BothAbsent /\ ErrorShown))

\* C8 as stated: the cache gains an entry only when a load succeeds, and an
\* entry is never removed or changed.
C8_Original ==
    [][ /\ cache[FILE_PATH].present => cache' = cache
        /\ (~cache[FILE_PATH].present /\ cache'[FILE_PATH].present)
              => (~cache'[FILE_PATH].value[1].isNone /\ ~cache'[FILE_PATH].value[2].isNone)
      ]_vars

\* C9 as stated: no element is emitted before the call of line 59 has
\* returned.
C9_Original ==
    (ui # <<>> /\ outcome # "raised") => CallReturned

\* C9 amended: the title and the first separator are emitted before the call
\* of line 59, and nothing else is: no header, table, chart or caption is
\* emitted before the call has returned.
C9_SectionsAfterCall ==
    /\ pc \in {"L59", "L22", "L33", "L36", "L39", "L43", "L46", "L48"}
          => ui = <<"title", "separator">>
    /\ (Emitted \cap SectionElems # {}) => CallReturned

\* C9 witness: the function is about to return, the title already emitted.
C9_Witness ==
    /\ pc = "L48"
    /\ ui = <<"title", "separator">>
    /\ outcome = "none"

====
